---- MODULE Spec2Model ----
(***************************************************************************)
(* Model of HashMap<KeyT, ValueT> (src/HashMap.hpp): an open-hashing map   *)
(* whose buckets are vectors of pointers to heap-allocated pairs.          *)
(*                                                                         *)
(* A map object is a record [size, capacity, arr]; arr is the bucket array *)
(* (bucket index b of the code is arr[b + 1]) and every bucket is a        *)
(* sequence of pointers into `heap`.  The state holds one map object, `m`; *)
(* a second object (a copy, the other side of ==) is a value built in the  *)
(* same heap by the operators that model the constructors and methods.     *)
(* The last section models scoreEmail and loadDatabase of                  *)
(* src/SpamDetector.cpp, with strings as sequences of characters.          *)
(***************************************************************************)
EXTENDS Integers, Sequences, FiniteSets, TLC

\* ---------------------------------------------------------------- bounds
NumKeys == 3
MaxVal == 1
MaxLen == 3
MaxCount == 40
FillKeys == 13

\* ------------------------------------------------------ program constants
DEFAULT_SIZE == 0
DEFAULT_CAPACITY == 16
MIN_CAPACITY == 1
CHANGE_FACTOR == 2

Keys == 1..NumKeys
Values == 0..MaxVal
\* ValueT(): the value-initialised int
DefaultValue == 0

\* Heap cells for pairs: a copy is built while the pairs of its source are
\* alive, and the bulk constructor allocates a pair before it deletes the
\* duplicate it replaces.
MaxPtr == 2 * NumKeys + 1
Ptr == 1..MaxPtr
nullptr == 0
Free == [first |-> 0, second |-> 0]
EmptyHeap == [p \in Ptr |-> Free]

\* new std::pair<KeyT, ValueT>(...): the address of an unused cell.
New(hp) ==
    CHOOSE p \in DOMAIN hp : hp[p] = Free /\ \A q \in DOMAIN hp : q < p => hp[q] # Free

\* std::hash<KeyT>{}(key): 3, 19, 6, 35, 51, 9, ...  Keys 1, 2, 4, 5 agree on the
\* low four bits (they share a bucket at every capacity up to 16); keys 3 and 6
\* move between buckets as the capacity changes.
StdHash(k) == IF k % 3 = 0 THEN 3 * (k \div 3 + 1) ELSE 3 + 16 * (k - 1 - k \div 3)

\* a & b on non-negative ints (b = -1 is all ones).
RECURSIVE BitAnd(_, _)
BitAnd(a, b) ==
    IF a = 0 \/ b = 0 THEN 0
    ELSE IF b = -1 THEN a
    ELSE (a % 2) * (b % 2) + 2 * BitAnd(a \div 2, b \div 2)

\* HashMap::_hash with the capacity made explicit.
Hash(key, capacity) == BitAnd(StdHash(key), capacity - 1)

\* new std::vector<...>[capacity]
NewArr(capacity) == [b \in 1..capacity |-> <<>>]

\* the grow test with the factor forgotten: size / capacity > 1
AboveMaxLoadFull(size, capacity) == size > capacity

\* the grow test with >= for >
AtLeastMaxLoad(size, capacity) == 4 * size >= 3 * capacity

\* getLoadFactor() > MAX_LOAD_FACTOR, i.e. (double) size / capacity > 0.75
AboveMaxLoad(size, capacity) == 4 * size > 3 * capacity
\* the shrink test with <= for <
AtMostMinLoad(size, capacity) == 4 * size <= capacity

\* getLoadFactor() < MIN_LOAD_FACTOR, i.e. (double) size / capacity < 0.25
BelowMinLoad(size, capacity) == 4 * size < capacity

\* ------------------------------------------------------------ row helpers
\* _getValue: pointer to the first pair of the row whose key matches, or nullptr.
RECURSIVE GetValueFrom(_, _, _, _)
GetValueFrom(key, row, hp, n) ==
    IF n > Len(row) THEN nullptr
    ELSE IF hp[row[n]].first = key THEN row[n]
    ELSE GetValueFrom(key, row, hp, n + 1)

GetValue(key, row, hp) == GetValueFrom(key, row, hp, 1)

\* position of the first pair of the row whose key matches, or 0.
RECURSIVE FindFrom(_, _, _, _)
FindFrom(key, row, hp, n) ==
    IF n > Len(row) THEN 0
    ELSE IF hp[row[n]].first = key THEN n
    ELSE FindFrom(key, row, hp, n + 1)

\* _deleteValue without the swap: the back of the row is popped whichever pair
\* matched.
DeleteValueNoSwap(key, row, hp) ==
    LET it == FindFrom(key, row, hp, 1) IN
    IF it = 0 THEN [row |-> row, heap |-> hp, ret |-> FALSE]
    ELSE [row |-> SubSeq(row, 1, Len(row) - 1),
          heap |-> [hp EXCEPT ![row[it]] = Free],
          ret |-> TRUE]

\* _deleteValue erasing the slot of the matching pair, the pairs behind it
\* moving one slot to the front
DeleteValueShifts(key, row, hp) ==
    LET it == FindFrom(key, row, hp, 1) IN
    IF it = 0 THEN [row |-> row, heap |-> hp, ret |-> FALSE]
    ELSE [row |-> SubSeq(row, 1, it - 1) \o SubSeq(row, it + 1, Len(row)),
          heap |-> [hp EXCEPT ![row[it]] = Free],
          ret |-> TRUE]

\* _deleteValue: delete the first matching pair, swap the back of the row into
\* its slot unless it is the back, pop the back.  [row, heap, ret].
DeleteValue(key, row, hp) ==
    LET it == FindFrom(key, row, hp, 1) IN
    IF it = 0 THEN [row |-> row, heap |-> hp, ret |-> FALSE]
    ELSE LET swapped == IF row[Len(row)] # row[it]
                        THEN [row EXCEPT ![it] = row[Len(row)], ![Len(row)] = row[it]]
                        ELSE row
         IN [row |-> SubSeq(swapped, 1, Len(row) - 1),
             heap |-> [hp EXCEPT ![row[it]] = Free],
             ret |-> TRUE]

\* ---------------------------------------------------------------- rehash
\* _rehashArray: walk the old buckets in index order, every row front to back,
\* and push each pointer on the back of its bucket in the new array.
RECURSIVE RehashRow(_, _, _, _, _)
RehashRow(row, n, temp, hp, newCapacity) ==
    IF n > Len(row) THEN temp
    ELSE LET b == Hash(hp[row[n]].first, newCapacity) + 1
         IN RehashRow(row, n + 1, [temp EXCEPT ![b] = Append(@, row[n])], hp, newCapacity)

RECURSIVE RehashFrom(_, _, _, _, _)
RehashFrom(mp, i, temp, hp, newCapacity) ==
    IF i >= mp.capacity THEN temp
    ELSE RehashFrom(mp, i + 1, RehashRow(mp.arr[i + 1], 1, temp, hp, newCapacity), hp, newCapacity)

\* _rehashArray that moves whole rows to the same index of the new array
RehashArrayKeepsRows(mp, hp, newCapacity) ==
    [size |-> mp.size,
     capacity |-> newCapacity,
     arr |-> [b \in 1..newCapacity |-> IF b <= mp.capacity THEN mp.arr[b] ELSE <<>>]]

\* _rehashArray placing the pairs with _hash(), whose mask is still that of
\* the old capacity
RehashArrayOldMask(mp, hp, newCapacity) ==
    [size |-> mp.size,
     capacity |-> newCapacity,
     arr |-> RehashFrom(mp, 0, NewArr(newCapacity), hp, mp.capacity)]

\* _rehashArray whose loop over the old rows starts at the second row
RehashArrayFromSecondRow(mp, hp, newCapacity) ==
    [size |-> mp.size,
     capacity |-> newCapacity,
     arr |-> RehashFrom(mp, 1, NewArr(newCapacity), hp, newCapacity)]

RehashArray(mp, hp, newCapacity) ==
    [size |-> mp.size,
     capacity |-> newCapacity,
     arr |-> RehashFrom(mp, 0, NewArr(newCapacity), hp, newCapacity)]

\* ---------------------------------------------------------- constructors
\* HashMap(): size DEFAULT_SIZE, DEFAULT_CAPACITY empty buckets.
HashMapEmpty ==
    [size |-> DEFAULT_SIZE, capacity |-> DEFAULT_CAPACITY, arr |-> NewArr(DEFAULT_CAPACITY)]

\* the capacity loop with the load factor left out of its test
RECURSIVE BulkCapacityNoLoad(_, _)
BulkCapacityNoLoad(size, capacity) ==
    IF capacity <= size THEN BulkCapacityNoLoad(size, capacity * 2) ELSE capacity

\* while (_capacity <= _size || getLoadFactor() > MAX_LOAD_FACTOR) _capacity *= 2
RECURSIVE BulkCapacity(_, _)
BulkCapacity(size, capacity) ==
    IF capacity <= size \/ AboveMaxLoad(size, capacity)
    THEN BulkCapacity(size, capacity * 2)
    ELSE capacity

\* for (int i = 0; i < _size; i++): allocate the pair, delete a pair with the
\* same key from its row (decrementing _size, the bound of this very loop),
\* push the new pair on the back of the row.
RECURSIVE BulkLoop(_, _, _, _, _, _, _)
BulkLoop(keys, values, i, size, capacity, arr, hp) ==
    IF ~(i < size) THEN [map |-> [size |-> size, capacity |-> capacity, arr |-> arr], heap |-> hp]
    ELSE LET pair == New(hp)
             hp1 == [hp EXCEPT ![pair] = [first |-> keys[i + 1], second |-> values[i + 1]]]
             b == Hash(keys[i + 1], capacity) + 1
             d == DeleteValue(keys[i + 1], arr[b], hp1)
         IN BulkLoop(keys, values, i + 1, IF d.ret THEN size - 1 ELSE size, capacity,
                     [arr EXCEPT ![b] = Append(d.row, pair)], d.heap)

\* HashMap(keys, values) for vectors of equal size.
HashMapFromVectors(keys, values, hp) ==
    LET capacity == BulkCapacity(Len(keys), DEFAULT_CAPACITY)
    IN BulkLoop(keys, values, 0, Len(keys), capacity, NewArr(capacity), hp)

\* a row copied pointer by pointer: the pairs themselves are shared
CopyRowShared(otherRow, n, thisRow, hp) ==
    [row |-> thisRow \o SubSeq(otherRow, n, Len(otherRow)), heap |-> hp]

\* _copy: same size and capacity, every bucket rebuilt in order from fresh
\* copies of the other map's pairs.
RECURSIVE CopyRow(_, _, _, _)
CopyRow(otherRow, n, thisRow, hp) ==
    IF n > Len(otherRow) THEN [row |-> thisRow, heap |-> hp]
    ELSE LET pair == New(hp)
         IN CopyRow(otherRow, n + 1, Append(thisRow, pair),
                    [hp EXCEPT ![pair] = hp[otherRow[n]]])

RECURSIVE CopyFrom(_, _, _, _)
CopyFrom(other, i, arr, hp) ==
    IF i >= other.capacity THEN [arr |-> arr, heap |-> hp]
    ELSE LET r == CopyRow(other.arr[i + 1], 1, arr[i + 1], hp)
         IN CopyFrom(other, i + 1, [arr EXCEPT ![i + 1] = r.row], r.heap)

Copy(other, hp) ==
    LET c == CopyFrom(other, 0, NewArr(other.capacity), hp)
    IN [map |-> [size |-> other.size, capacity |-> other.capacity, arr |-> c.arr],
        heap |-> c.heap]

\* --------------------------------------------------------------- methods
\* the pairs held by the buckets of a map object
Pairs(mp) == UNION {{mp.arr[b][n] : n \in 1..Len(mp.arr[b])} : b \in 1..mp.capacity}

\* clear() without the reset of _size
ClearKeepsSize(mp, hp) ==
    [map |-> [mp EXCEPT !.arr = [b \in 1..mp.capacity |-> <<>>]],
     heap |-> [p \in Ptr |-> IF p \in Pairs(mp) THEN Free ELSE hp[p]]]

\* clear(): delete every pair of every row, empty the rows, _size = 0.
Clear(mp, hp) ==
    [map |-> [size |-> 0, capacity |-> mp.capacity, arr |-> [b \in 1..mp.capacity |-> <<>>]],
     heap |-> [p \in Ptr |-> IF p \in Pairs(mp) THEN Free ELSE hp[p]]]

\* ~HashMap(): clear(), delete[] _arr.
Destroy(mp, hp) == Clear(mp, hp).heap

\* containsKey
ContainsKey(mp, hp, key) == GetValue(key, mp.arr[Hash(key, mp.capacity) + 1], hp) # nullptr

\* insert that overwrites the value of a key already present
InsertOverwrite(mp, hp, key, value) ==
    LET b == Hash(key, mp.capacity) + 1
        found == GetValue(key, mp.arr[b], hp)
    IN IF found # nullptr
       THEN [map |-> mp, heap |-> [hp EXCEPT ![found].second = value], ret |-> FALSE]
       ELSE LET pair == New(hp)
                hp1 == [hp EXCEPT ![pair] = [first |-> key, second |-> value]]
                m1 == [mp EXCEPT !.arr[b] = Append(@, pair), !.size = @ + 1]
            IN [map |-> IF AboveMaxLoad(m1.size, m1.capacity)
                        THEN RehashArray(m1, hp1, m1.capacity * CHANGE_FACTOR)
                        ELSE m1,
                heap |-> hp1,
                ret |-> TRUE]

\* insert that grows the table by CHANGE_FACTOR twice
InsertGrowsTwice(mp, hp, key, value) ==
    LET b == Hash(key, mp.capacity) + 1 IN
    IF GetValue(key, mp.arr[b], hp) # nullptr
    THEN [map |-> mp, heap |-> hp, ret |-> FALSE]
    ELSE LET pair == New(hp)
             hp1 == [hp EXCEPT ![pair] = [first |-> key, second |-> value]]
             m1 == [mp EXCEPT !.arr[b] = Append(@, pair), !.size = @ + 1]
         IN [map |-> IF AboveMaxLoad(m1.size, m1.capacity)
                     THEN RehashArray(m1, hp1, m1.capacity * CHANGE_FACTOR * CHANGE_FACTOR)
                     ELSE m1,
             heap |-> hp1,
             ret |-> TRUE]

\* insert that grows the table by adding CHANGE_FACTOR to the capacity
InsertGrowsByAdding(mp, hp, key, value) ==
    LET b == Hash(key, mp.capacity) + 1 IN
    IF GetValue(key, mp.arr[b], hp) # nullptr
    THEN [map |-> mp, heap |-> hp, ret |-> FALSE]
    ELSE LET pair == New(hp)
             hp1 == [hp EXCEPT ![pair] = [first |-> key, second |-> value]]
             m1 == [mp EXCEPT !.arr[b] = Append(@, pair), !.size = @ + 1]
         IN [map |-> IF AboveMaxLoad(m1.size, m1.capacity)
                     THEN RehashArray(m1, hp1, m1.capacity + CHANGE_FACTOR)
                     ELSE m1,
             heap |-> hp1,
             ret |-> TRUE]

\* insert
Insert(mp, hp, key, value) ==
    LET b == Hash(key, mp.capacity) + 1 IN
    IF GetValue(key, mp.arr[b], hp) # nullptr
    THEN [map |-> mp, heap |-> hp, ret |-> FALSE]
    ELSE LET pair == New(hp)
             hp1 == [hp EXCEPT ![pair] = [first |-> key, second |-> value]]
             m1 == [mp EXCEPT !.arr[b] = Append(@, pair), !.size = @ + 1]
         IN [map |-> IF AboveMaxLoad(m1.size, m1.capacity)
                     THEN RehashArray(m1, hp1, m1.capacity * CHANGE_FACTOR)
                     ELSE m1,
             heap |-> hp1,
             ret |-> TRUE]

\* erase with the shrink test outside the if: it runs whether or not a pair
\* was deleted
EraseAlwaysShrinks(mp, hp, key) ==
    LET b == Hash(key, mp.capacity) + 1
        d == DeleteValue(key, mp.arr[b], hp)
        m1 == IF d.ret THEN [mp EXCEPT !.arr[b] = d.row, !.size = @ - 1] ELSE mp
    IN [map |-> IF BelowMinLoad(m1.size, m1.capacity) /\ m1.capacity > MIN_CAPACITY
                THEN RehashArray(m1, d.heap, m1.capacity \div CHANGE_FACTOR)
                ELSE m1,
        heap |-> d.heap,
        ret |-> d.ret]

\* erase without the decrement of _size
EraseKeepsSize(mp, hp, key) ==
    LET b == Hash(key, mp.capacity) + 1
        d == DeleteValue(key, mp.arr[b], hp)
    IN IF d.ret
       THEN LET m1 == [mp EXCEPT !.arr[b] = d.row]
            IN [map |-> IF BelowMinLoad(m1.size, m1.capacity) /\ m1.capacity > MIN_CAPACITY
                        THEN RehashArray(m1, d.heap, m1.capacity \div CHANGE_FACTOR)
                        ELSE m1,
                heap |-> d.heap,
                ret |-> TRUE]
       ELSE [map |-> mp, heap |-> hp, ret |-> FALSE]

\* erase
Erase(mp, hp, key) ==
    LET b == Hash(key, mp.capacity) + 1
        d == DeleteValue(key, mp.arr[b], hp)
    IN IF d.ret
       THEN LET m1 == [mp EXCEPT !.arr[b] = d.row, !.size = @ - 1]
            IN [map |-> IF BelowMinLoad(m1.size, m1.capacity) /\ m1.capacity > MIN_CAPACITY
                        THEN RehashArray(m1, d.heap, m1.capacity \div CHANGE_FACTOR)
                        ELSE m1,
                heap |-> d.heap,
                ret |-> TRUE]
       ELSE [map |-> mp, heap |-> hp, ret |-> FALSE]

\* operator[] without the grow test after the insertion
IndexNoGrow(mp, hp, key) ==
    LET b == Hash(key, mp.capacity) + 1
        value == GetValue(key, mp.arr[b], hp)
    IN IF value # nullptr
       THEN [map |-> mp, heap |-> hp, ret |-> value]
       ELSE LET pair == New(hp)
            IN [map |-> [mp EXCEPT !.arr[b] = Append(@, pair), !.size = @ + 1],
                heap |-> [hp EXCEPT ![pair] = [first |-> key, second |-> DefaultValue]],
                ret |-> pair]

\* operator[] (non-const): ret is the pair whose value the returned reference
\* denotes.
Index(mp, hp, key) ==
    LET b == Hash(key, mp.capacity) + 1
        value == GetValue(key, mp.arr[b], hp)
    IN IF value # nullptr
       THEN [map |-> mp, heap |-> hp, ret |-> value]
       ELSE LET pair == New(hp)
                hp1 == [hp EXCEPT ![pair] = [first |-> key, second |-> DefaultValue]]
                m1 == [mp EXCEPT !.arr[b] = Append(@, pair), !.size = @ + 1]
            IN [map |-> IF AboveMaxLoad(m1.size, m1.capacity)
                        THEN RehashArray(m1, hp1, m1.capacity * CHANGE_FACTOR)
                        ELSE m1,
                heap |-> hp1,
                ret |-> pair]

\* at: the pair whose value is returned, nullptr standing for the throw of
\* KeyNotFoundException.
At(mp, hp, key) == GetValue(key, mp.arr[Hash(key, mp.capacity) + 1], hp)

\* operator=: if (_arr != other._arr) { clear(); delete[] _arr; _copy(other); }
Assign(mp, other, sameObject, hp) ==
    IF sameObject THEN [map |-> mp, heap |-> hp]
    ELSE Copy(other, Clear(mp, hp).heap)

\* ----------------------------------------------------------------- state
\* Addresses are only ever compared for equality, so states that differ by a
\* renaming of the heap cells are the same program state.  Between calls the
\* cells are renamed so that the pair holding key k is cell k (no two pairs of
\* a map hold the same key: a key's pairs all land in one row, where
\* _deleteValue and _getValue keep them apart).
Renamed(mp, hp) ==
    LET live == {hp[q] : q \in Pairs(mp)}
    IN [map |-> [mp EXCEPT !.arr = [b \in 1..mp.capacity |->
                                       [n \in 1..Len(mp.arr[b]) |-> hp[mp.arr[b][n]].first]]],
        heap |-> [p \in DOMAIN hp |-> IF \E e \in live : e.first = p
                                THEN CHOOSE e \in live : e.first = p
                                ELSE Free]]

VARIABLES
    m,      \* the map object: [size, capacity, arr]
    heap,   \* the pairs allocated with new: Ptr -> [first, second] or Free
    last,   \* the call that produced this state, its arguments and its result
    hist,   \* history of the calls since construction (see NoHist)
    it,     \* a const_iterator over m and the pairs it has produced
    mail    \* the frame of scoreEmail in SpamDetector.cpp (see NoMail)

vars == <<m, heap, last, hist, it, mail>>

\* a call record: the method, whether it returned true (for void methods and
\* references: whether it returned at all), the capacity it found, and the
\* vectors a bulk constructor was given
Call(op, ret, cap, keys, vals) ==
    [op |-> op, ret |-> ret, cap |-> cap, keys |-> keys, vals |-> vals]

Op(op, ret) == Call(op, ret, m.capacity, <<>>, <<>>)
Constructed(op) == Call(op, TRUE, 0, <<>>, <<>>)

\* History kept by the specifications that track it:
\*   net     inserts that returned true minus erases that returned true
\*   ref     the reference set of keys (insert adds the key, erase removes it)
\*   ins     ins[k] = v when insert(k, v) returned true and no erase(k), clear()
\*           or write to k has happened since, else -1
NoHist == [net |-> 0, ref |-> {}, ins |-> [k \in Keys |-> -1]]
NoIt == [live |-> FALSE, i |-> 0, j |-> 0, capacity |-> 0, seen |-> <<>>]

\* scoreEmail has not been called
NoMail == [pc |-> "none"]

\* vectors of length n over S
Vectors(S, n) == [1..n -> S]

\* the object and the heap a call leaves behind, and the record of the call
Becomes(mp, hp, call) ==
    \E c \in {Renamed(mp, hp)} :
        /\ m' = c.map
        /\ heap' = c.heap
        /\ last' = call

\* the map right after HashMap()
InitEmpty ==
    /\ m = HashMapEmpty
    /\ heap = EmptyHeap
    /\ last = Constructed("HashMap")

\* the map right after HashMap(keys, values), for any two vectors of equal
\* size; `record` says whether the vectors are kept in `last`
InitBulk(record) ==
    \E n \in 0..MaxLen : \E keys \in Vectors(Keys, n), values \in Vectors(Values, n) :
        \E r \in {HashMapFromVectors(keys, values, EmptyHeap)} :
            \E c \in {Renamed(r.map, r.heap)} :
                /\ m = c.map
                /\ heap = c.heap
                /\ last = IF record THEN Call("HashMapFromVectors", TRUE, 0, keys, values)
                          ELSE Constructed("HashMapFromVectors")

Init ==
    /\ InitEmpty \/ InitBulk(FALSE)
    /\ hist = NoHist
    /\ it = NoIt
    /\ mail = NoMail

\* --------------------------------------------------------------- actions
\* m.insert(key, value)
DoInsert(key, value) ==
    \E r \in {Insert(m, heap, key, value)} :
        Becomes(r.map, r.heap, Op("insert", r.ret))

\* m.erase(key)
DoErase(key) ==
    \E r \in {Erase(m, heap, key)} :
        Becomes(r.map, r.heap, Op("erase", r.ret))

\* m[key], the reference only read
DoIndex(key) ==
    \E r \in {Index(m, heap, key)} :
        Becomes(r.map, r.heap, Op("index", TRUE))

\* m[key] = value
DoIndexAssign(key, value) ==
    \E r \in {Index(m, heap, key)} :
        Becomes(r.map, [r.heap EXCEPT ![r.ret].second = value], Op("indexAssign", TRUE))

\* m.at(key) = value; KeyNotFoundException (ret FALSE) when the key is absent
DoAtAssign(key, value) ==
    \E p \in {At(m, heap, key)} :
        Becomes(m, IF p # nullptr THEN [heap EXCEPT ![p].second = value] ELSE heap,
                Op("atAssign", p # nullptr))

\* m.clear()
DoClear ==
    \E r \in {Clear(m, heap)} :
        Becomes(r.map, r.heap, Op("clear", TRUE))

\* HashMap c(m): the program goes on with the copy, the original is destroyed
DoCopyConstruct ==
    \E r \in {Copy(m, heap)} :
        Becomes(r.map, Destroy(m, r.heap), Op("copy", TRUE))

\* the maps assigned from: HashMap() and the maps holding one pair
AssignSources(hp) ==
    {[map |-> HashMapEmpty, heap |-> hp]}
        \cup {[map |-> r.map, heap |-> r.heap] :
                  r \in {Insert(HashMapEmpty, hp, k, MaxVal) : k \in Keys}}

\* m = other, for another map object, which is destroyed afterwards
DoAssign ==
    \E src \in AssignSources(heap) :
        \E r \in {Assign(m, src.map, FALSE, src.heap)} :
            Becomes(r.map, Destroy(src.map, r.heap), Op("assign", TRUE))

\* m = m
DoSelfAssign ==
    \E r \in {Assign(m, m, TRUE, heap)} :
        Becomes(r.map, r.heap, Op("selfAssign", TRUE))

\* a call of a program that keeps no history and holds no iterator
Untracked == UNCHANGED <<hist, it, mail>>

Next ==
    \/ \E key \in Keys, value \in Values : DoInsert(key, value) /\ Untracked
    \/ \E key \in Keys : DoErase(key) /\ Untracked
    \/ \E key \in Keys : DoIndex(key) /\ Untracked
    \/ \E key \in Keys, value \in Values : DoIndexAssign(key, value) /\ Untracked
    \/ \E key \in Keys, value \in Values : DoAtAssign(key, value) /\ Untracked
    \/ DoClear /\ Untracked
    \/ DoCopyConstruct /\ Untracked
    \/ DoAssign /\ Untracked
    \/ DoSelfAssign /\ Untracked

Spec == Init /\ [][Next]_vars

\* ---------------------------------------------------------- observations
\* number of pairs stored over all buckets
RECURSIVE EntryCountFrom(_, _)
EntryCountFrom(mp, b) ==
    IF b > mp.capacity THEN 0 ELSE Len(mp.arr[b]) + EntryCountFrom(mp, b + 1)

EntryCount(mp) == EntryCountFrom(mp, 1)

\* the keys and the key/value pairs stored in the buckets, wherever they sit
KeysOf(mp, hp) == {hp[p].first : p \in Pairs(mp)}
Content(mp, hp) == {<<hp[p].first, hp[p].second>> : p \in Pairs(mp)}

\* the value at(key) returns (-1 for KeyNotFoundException)
AtValue(mp, hp, key) ==
    IF At(mp, hp, key) = nullptr THEN -1 ELSE hp[At(mp, hp, key)].second

IsPowerOfTwo(n) == \E e \in 0..n : 2 ^ e = n

\* the keys of a vector, and the position of the last occurrence of a key
Range(seq) == {seq[n] : n \in 1..Len(seq)}
LastOccurrence(seq, key) ==
    CHOOSE n \in 1..Len(seq) : seq[n] = key /\ \A j \in (n + 1)..Len(seq) : seq[j] # key

\* ------------------------------------------------------------------ C1
\* C1 (as claimed): in every reachable state size() equals the number of
\* entries stored over all buckets.
C1_SizeCountsEntries == m.size = EntryCount(m)

\* ------------------------------------------------------------------ C2
\* the bulk constructor's result with the vectors it was given kept in `last`
InitRecorded ==
    /\ InitBulk(TRUE)
    /\ hist = NoHist
    /\ it = NoIt
    /\ mail = NoMail

SpecBulk == InitRecorded /\ [][Next]_vars

\* C2 (as claimed): the bulk constructor yields exactly the distinct keys of
\* its input, each with the value paired with its last occurrence, and size() is
\* the number of distinct keys.
C2_BulkLastWins ==
    last.op = "HashMapFromVectors" =>
        /\ KeysOf(m, heap) = Range(last.keys)
        /\ \A k \in Range(last.keys) :
               /\ ContainsKey(m, heap, k)
               /\ AtValue(m, heap, k) = last.vals[LastOccurrence(last.keys, k)]
        /\ m.size = Cardinality(Range(last.keys))

\* ------------------------------------------------------------------ C5
\* C5 (as claimed): after any completed insert or erase the load factor is in
\* [0.25, 0.75] unless the capacity is at the minimum.
C5_LoadFactorInRange ==
    last.op \in {"insert", "erase"} =>
        \/ m.capacity = MIN_CAPACITY
        \/ (m.capacity <= 4 * m.size /\ 4 * m.size <= 3 * m.capacity)

\* C5 (amended): after any completed insert or erase size()/capacity() <= 0.75;
\* the lower bound 0.25 <= size()/capacity() holds after an insert that grew
\* the table, and not in general.
C5_LoadFactorAtMost ==
    /\ last.op \in {"insert", "erase"} => 4 * m.size <= 3 * m.capacity
    /\ (last.op = "insert" /\ m.capacity > last.cap) => m.capacity <= 4 * m.size

\* an insert has just grown the table
C5_Witness == last.op = "insert" /\ last.ret /\ m.capacity > last.cap /\ m.size >= 2

\* ------------------------------------------------------------------ C6
\* C6: in every reachable state capacity() is a power of two and at least 1.
C6_CapacityPowerOfTwo == m.capacity >= MIN_CAPACITY /\ IsPowerOfTwo(m.capacity)

\* an erase has shrunk the table to the minimum capacity
C6_Witness == last.op = "erase" /\ last.cap > m.capacity /\ m.capacity = MIN_CAPACITY

\* ------------------------------------------------------------------ C8
\* C8: insert(k, v) on a map that contains k returns false and changes nothing
\* (object and heap are as before); on a map that does not contain k it returns
\* true and adds exactly the entry (k, v).
C8_InsertFrame ==
    \A k \in Keys, v \in Values :
        LET r == Insert(m, heap, k, v)
        IN IF k \in KeysOf(m, heap)
           THEN ~r.ret /\ r.map = m /\ r.heap = heap
           ELSE /\ r.ret
                /\ r.map.size = m.size + 1
                /\ EntryCount(r.map) = EntryCount(m) + 1
                /\ Content(r.map, r.heap) = Content(m, heap) \cup {<<k, v>>}

\* an insert of a key already present has returned false on a map of two keys
C8_Witness == last.op = "insert" /\ ~last.ret /\ Cardinality(KeysOf(m, heap)) >= 2

\* ------------------------------------------------------------------ C9
\* C9: erase(k) on a map that does not contain k returns false and leaves the
\* map unchanged (size, capacity, contents, no resize), also when the load
\* factor is below 0.25.
C9_EraseAbsentFrame ==
    \A k \in Keys \ KeysOf(m, heap) :
        LET r == Erase(m, heap, k)
        IN ~r.ret /\ r.map = m /\ r.heap = heap

\* an erase of an absent key has returned false on a non-empty map whose load
\* factor is below 0.25 and whose capacity is above the minimum
C9_Witness ==
    /\ last.op = "erase" /\ ~last.ret
    /\ m.size >= 1 /\ BelowMinLoad(m.size, m.capacity) /\ m.capacity > MIN_CAPACITY

\* ----------------------------------------------------------------- C10
\* C10: erase(k) on a map that contains k returns true; afterwards k is not
\* contained, size() is one less and every other key is contained with its
\* value unchanged, also when the erase shrinks the table.
C10_ErasePresentFrame ==
    \A k \in KeysOf(m, heap) :
        LET r == Erase(m, heap, k)
        IN /\ r.ret
           /\ ~ContainsKey(r.map, r.heap, k)
           /\ r.map.size = m.size - 1
           /\ \A k2 \in KeysOf(m, heap) \ {k} :
                  /\ ContainsKey(r.map, r.heap, k2)
                  /\ AtValue(r.map, r.heap, k2) = AtValue(m, heap, k2)

\* an erase has returned true and shrunk a table that still holds a key
C10_Witness ==
    last.op = "erase" /\ last.ret /\ m.capacity < last.cap /\ EntryCount(m) >= 1

\* ------------------------------------------ insert and erase, counted
\* the history after m.insert(key, value): the count of successful inserts and
\* the reference set
CountInsert(key) ==
    hist' = [hist EXCEPT !.net = IF last'.ret THEN @ + 1 ELSE @,
                         !.ref = @ \cup {key}]

\* the history after m.erase(key)
CountErase(key) ==
    hist' = [hist EXCEPT !.net = IF last'.ret THEN @ - 1 ELSE @,
                         !.ref = @ \ {key}]

InitInsertErase ==
    /\ InitEmpty
    /\ hist = NoHist
    /\ it = NoIt
    /\ mail = NoMail

NextInsertErase ==
    \/ \E key \in Keys, value \in Values :
           DoInsert(key, value) /\ CountInsert(key) /\ UNCHANGED <<it, mail>>
    \/ \E key \in Keys : DoErase(key) /\ CountErase(key) /\ UNCHANGED <<it, mail>>

\* a map created empty on which insert and erase are called
SpecInsertErase == InitInsertErase /\ [][NextInsertErase]_vars

\* ------------------------------------------------------------------ C3
\* C3: on a map created empty, after every insert and erase, size() equals the
\* number of inserts that returned true minus the number of erases that
\* returned true, which is the number of distinct keys in the map and the size
\* of the reference set of keys.
C3_SizeIsNetInserts ==
    /\ m.size = hist.net
    /\ m.size = Cardinality(KeysOf(m, heap))
    /\ KeysOf(m, heap) = hist.ref

\* inserts and erases have left two keys in a table that has been resized
C3_Witness ==
    /\ last.op = "erase" /\ last.ret
    /\ hist.net >= 2 /\ m.capacity # DEFAULT_CAPACITY

\* ---------------------------------------------------- inserted values
\* the history after m.insert(key, value): the value inserted
TrackInsert(key, value) ==
    hist' = IF last'.ret THEN [hist EXCEPT !.ins[key] = value] ELSE hist

\* the history after a call that ends the tracking of the keys in `ended`
TrackEnd(ended) ==
    hist' = [hist EXCEPT !.ins = [k \in Keys |-> IF k \in ended THEN -1 ELSE @[k]]]

InitTracked ==
    /\ InitEmpty
    /\ hist = NoHist
    /\ it = NoIt
    /\ mail = NoMail

NextTracked ==
    \/ \E key \in Keys, value \in Values :
           DoInsert(key, value) /\ TrackInsert(key, value) /\ UNCHANGED <<it, mail>>
    \/ \E key \in Keys : DoErase(key) /\ TrackEnd({key}) /\ UNCHANGED <<it, mail>>
    \/ \E key \in Keys, value \in Values :
           DoIndexAssign(key, value) /\ TrackEnd({key}) /\ UNCHANGED <<it, mail>>
    \/ DoClear /\ TrackEnd(Keys) /\ UNCHANGED <<it, mail>>

\* the calls that add, remove and write entries of one map object, with the
\* values given to successful inserts remembered
SpecTracked == InitTracked /\ [][NextTracked]_vars

\* ------------------------------------------------------------------ C4
\* C4: once insert(k, v) has returned true, containsKey(k) is true and at(k)
\* returns v after every later sequence of calls on other keys, resizes
\* included, until erase(k), clear() or a write to k.
C4_RoundTrip ==
    \A k \in Keys :
        hist.ins[k] # -1 =>
            /\ ContainsKey(m, heap, k)
            /\ AtValue(m, heap, k) = hist.ins[k]

\* a key inserted with a value other than the default is still tracked after
\* the erase of another key has shrunk the table
C4_Witness ==
    /\ last.op = "erase" /\ last.ret /\ m.capacity < last.cap
    /\ \E k \in Keys : hist.ins[k] = MaxVal

\* ------------------------------------------------------------------ C7
\* const_iterator: _i and _j count from 0 as in the source, bucket _i is
\* arr[_i + 1]; _arr is the array of the map the iterator was made from.

\* the constructor's loop: the first non-empty bucket from i on, or capacity
RECURSIVE SkipToFirstValid(_, _, _)
SkipToFirstValid(arr, i, capacity) ==
    IF arr[i + 1] # <<>> THEN i
    ELSE IF i + 1 < capacity THEN SkipToFirstValid(arr, i + 1, capacity)
    ELSE i + 1

\* operator++ stepping to the next bucket whether or not it is empty
StepToNextRow(arr, i, capacity) == i + 1

\* operator++'s loop: the first non-empty bucket after i, or capacity
RECURSIVE SkipToNextValid(_, _, _)
SkipToNextValid(arr, i, capacity) ==
    IF i + 1 < capacity /\ arr[i + 1 + 1] = <<>>
    THEN SkipToNextValid(arr, i + 1, capacity)
    ELSE i + 1

\* const_iterator(arr, capacity, begin) without the skip to the first valid
\* bucket
ConstIteratorNoSkip(mp, begin) ==
    [live |-> TRUE, i |-> IF begin THEN 0 ELSE mp.capacity,
     j |-> 0, capacity |-> mp.capacity, seen |-> <<>>]

\* const_iterator(arr, capacity, begin)
ConstIterator(mp, begin) ==
    [live |-> TRUE,
     i |-> IF begin THEN SkipToFirstValid(mp.arr, 0, mp.capacity) ELSE mp.capacity,
     j |-> 0, capacity |-> mp.capacity, seen |-> <<>>]

Begin(mp) == ConstIterator(mp, TRUE)
End(mp) == ConstIterator(mp, FALSE)

\* operator->: the pair under the iterator, nullptr for OutOfRangeException
Arrow(itr, mp) ==
    IF itr.i < itr.capacity THEN mp.arr[itr.i + 1][itr.j + 1] ELSE nullptr

\* operator++ (prefix)
Increment(itr, mp) ==
    IF itr.i < itr.capacity
    THEN IF itr.j + 1 >= Len(mp.arr[itr.i + 1])
         THEN [itr EXCEPT !.j = 0,
                          !.i = SkipToNextValid(mp.arr, itr.i, itr.capacity)]
         ELSE [itr EXCEPT !.j = itr.j + 1]
    ELSE itr

\* const_iterator::operator== for two iterators over the same array
IteratorEquals(a, b) == a.live = b.live /\ a.i = b.i /\ a.j = b.j

\* auto it = map.begin()
DoBegin ==
    /\ it' = Begin(m)
    /\ UNCHANGED <<m, heap, last, hist, mail>>

\* one round of  for (; it != map.end(); ++it) { ... it->first ... }
DoAdvance ==
    /\ it.live
    /\ ~IteratorEquals(it, End(m))
    /\ it' = [Increment(it, m) EXCEPT !.seen = Append(it.seen, Arrow(it, m))]
    /\ UNCHANGED <<m, heap, last, hist, mail>>

\* a call that changes the map ends the traversal
Dropped == it' = NoIt /\ UNCHANGED <<hist, mail>>

InitIter ==
    /\ InitEmpty \/ InitBulk(FALSE)
    /\ hist = NoHist
    /\ it = NoIt
    /\ mail = NoMail

NextIter ==
    \/ \E key \in Keys, value \in Values : DoInsert(key, value) /\ Dropped
    \/ \E key \in Keys : DoErase(key) /\ Dropped
    \/ DoClear /\ Dropped
    \/ DoBegin
    \/ DoAdvance

\* maps built by the constructors, insert, erase and clear, and traversals of
\* them that no call interrupts
SpecIter == InitIter /\ [][NextIter]_vars

\* a traversal from begin() has reached end()
TraversalDone == it.live /\ IteratorEquals(it, End(m))

\* the traversal so far has produced no pair twice and only pairs of the map
NoDuplicates ==
    /\ \A n \in 1..Len(it.seen) : it.seen[n] \in Pairs(m)
    /\ \A n, k \in 1..Len(it.seen) : it.seen[n] = it.seen[k] => n = k

\* C7 (as claimed): a traversal from begin() to end() with no mutation in
\* between produces exactly size() pairs, each live entry exactly once.
C7_IterationComplete ==
    TraversalDone =>
        /\ Len(it.seen) = m.size
        /\ NoDuplicates
        /\ \A p \in Pairs(m) : \E n \in 1..Len(it.seen) : it.seen[n] = p

\* ----------------------------------------------------------------- C11
\* operator[] const: the values the returned reference can denote.  For an
\* absent key it is a reference to _defaultValue, a member no constructor
\* initialises, so the value read is indeterminate.
IndexConst(mp, hp, key) ==
    LET value == GetValue(key, mp.arr[Hash(key, mp.capacity) + 1], hp)
    IN IF value # nullptr THEN {hp[value].second} ELSE Values

\* operator==, the walk over one row from position n: FALSE at the first pair
\* whose key the other map lacks or holds with another value
RECURSIVE EqualsRow(_, _, _, _)
EqualsRow(row, n, other, hp) ==
    IF n > Len(row) THEN TRUE
    ELSE IF \/ ~ContainsKey(other, hp, hp[row[n]].first)
            \/ IndexConst(other, hp, hp[row[n]].first) # {hp[row[n]].second}
         THEN FALSE
         ELSE EqualsRow(row, n + 1, other, hp)

\* operator==, the walk over the buckets from index i
RECURSIVE EqualsFrom(_, _, _, _)
EqualsFrom(mp, i, other, hp) ==
    IF i >= mp.capacity THEN TRUE
    ELSE IF ~EqualsRow(mp.arr[i + 1], 1, other, hp) THEN FALSE
    ELSE EqualsFrom(mp, i + 1, other, hp)

\* operator==
Equals(mp, other, hp) ==
    IF mp.size # other.size THEN FALSE ELSE EqualsFrom(mp, 0, other, hp)

\* a second map object holding the pairs of src, built from HashMap() by
\* inserting them from key k downwards
RECURSIVE RebuiltFrom(_, _, _, _)
RebuiltFrom(src, k, mp, hp) ==
    IF k = 0 THEN [map |-> mp, heap |-> hp]
    ELSE IF k \in KeysOf(src, hp)
         THEN LET r == Insert(mp, hp, k, AtValue(src, hp, k))
              IN RebuiltFrom(src, k - 1, r.map, r.heap)
         ELSE RebuiltFrom(src, k - 1, mp, hp)

Rebuilt(src, hp) == RebuiltFrom(src, NumKeys, HashMapEmpty, hp)

\* second map objects living in the same heap as mp: a copy of mp, the copy
\* after one insert, one erase, or an erase and an insert of the same key, and
\* the map rebuilt from HashMap()
Others(mp, hp) ==
    LET c == Copy(mp, hp)
        Only(r) == [map |-> r.map, heap |-> r.heap]
        Erased(k) == Erase(c.map, c.heap, k)
    IN {c, Rebuilt(mp, hp)}
       \cup {Only(Insert(c.map, c.heap, k, v)) : k \in Keys, v \in Values}
       \cup {Only(Erased(k)) : k \in Keys}
       \cup {Only(Insert(Erased(k).map, Erased(k).heap, k, v)) : k \in Keys, v \in Values}

\* the calls that build and empty one map object
NextMaps ==
    \/ \E key \in Keys, value \in Values : DoInsert(key, value) /\ Untracked
    \/ \E key \in Keys : DoErase(key) /\ Untracked
    \/ \E key \in Keys : DoIndex(key) /\ Untracked
    \/ DoClear /\ Untracked

SpecMaps == Init /\ [][NextMaps]_vars

\* same count, and every key of a is in b with an equal value
SameCountAndValues(a, b, hp) ==
    /\ a.size = b.size
    /\ \A e \in Content(a, hp) : e \in Content(b, hp)

\* C11 (as claimed): a == b is true iff a and b have the same count and every
\* key of a is in b with an equal value, whatever their capacities and bucket
\* layouts; two maps holding the same key/value pairs compare equal.
C11_EqualityByContent ==
    \A o \in Others(m, heap) :
        /\ Equals(m, o.map, o.heap) <=> SameCountAndValues(m, o.map, o.heap)
        /\ Equals(o.map, m, o.heap) <=> SameCountAndValues(o.map, m, o.heap)
        /\ Content(m, o.heap) = Content(o.map, o.heap) => Equals(m, o.map, o.heap)

\* ----------------------------------------------------------------- C12
\* the heaps that one mutating call on the map object mp can leave behind:
\* insert, erase, a write through operator[], a write through at(), clear
Mutations(mp, hp) ==
    {Insert(mp, hp, k, v).heap : k \in Keys, v \in Values}
    \cup {Erase(mp, hp, k).heap : k \in Keys}
    \cup {[Index(mp, hp, k).heap EXCEPT ![Index(mp, hp, k).ret].second = v] :
             k \in Keys, v \in Values}
    \cup {[hp EXCEPT ![At(mp, hp, k)].second = v] : k \in KeysOf(mp, hp), v \in Values}
    \cup {Clear(mp, hp).heap}

\* the pairs of the map object mp are the same in heap hp2 as in heap hp1
SamePairs(mp, hp1, hp2) == \A p \in Pairs(mp) : hp2[p] = hp1[p]

\* C12: a copy-constructed map has the capacity, count and contents of its
\* source and shares no entry with it: no insert, erase, operator[] write,
\* at() write or clear on the copy changes an entry of the original, and none
\* on the original changes an entry of the copy.
C12_CopyIndependent ==
    LET c == Copy(m, heap)
    IN /\ c.map.capacity = m.capacity
       /\ c.map.size = m.size
       /\ Content(c.map, c.heap) = Content(m, heap)
       /\ EntryCount(c.map) = EntryCount(m)
       /\ SamePairs(m, heap, c.heap)
       /\ Pairs(c.map) \cap Pairs(m) = {}
       /\ \A hp \in Mutations(c.map, c.heap) : SamePairs(m, heap, hp)
       /\ \A hp \in Mutations(m, c.heap) : SamePairs(c.map, c.heap, hp)

\* a map of two entries in a table that has shrunk: its copy has two entries
\* to keep apart from the original's
C12_Witness ==
    /\ EntryCount(Copy(m, heap).map) >= 2
    /\ m.capacity < DEFAULT_CAPACITY

\* ----------------------------------------------------------------- C13
\* The bulk constructor in two steps: the initialisers and the capacity loop
\* up to the allocation of the array (lines 528-539), then the insertion loop
\* (lines 540-549).  MaxCount bounds the length of the input vectors in the
\* first step; the second step is taken for the lengths up to MaxLen.

\* _size(keys.size()), _capacity(DEFAULT_CAPACITY)
InitSizing ==
    /\ \E n \in 0..MaxCount :
           m = [size |-> n, capacity |-> DEFAULT_CAPACITY, arr |-> <<>>]
    /\ heap = EmptyHeap
    /\ last = Call("sizing", TRUE, 0, <<>>, <<>>)
    /\ hist = NoHist
    /\ it = NoIt
    /\ mail = NoMail

\* the capacity loop and _arr = new std::vector<...>[_capacity]
DoBulkSize ==
    /\ last.op = "sizing"
    /\ \E capacity \in {BulkCapacity(m.size, m.capacity)} :
           m' = [size |-> m.size, capacity |-> capacity, arr |-> NewArr(capacity)]
    /\ heap' = heap
    /\ last' = Op("sized", TRUE)

\* the insertion loop
DoBulkFill ==
    /\ last.op = "sized"
    /\ m.size <= MaxLen
    /\ \E keys \in Vectors(Keys, m.size), values \in Vectors(Values, m.size) :
           \E r \in {BulkLoop(keys, values, 0, m.size, m.capacity, m.arr, heap)} :
               Becomes(r.map, r.heap, Op("HashMapFromVectors", TRUE))

NextSizing ==
    \/ DoBulkSize /\ Untracked
    \/ DoBulkFill /\ Untracked

SpecSizing == InitSizing /\ [][NextSizing]_vars

\* the powers of two below capacity that are at least `least`
PowersBelow(capacity, least) ==
    {c \in {2 ^ e : e \in 0..10} : least <= c /\ c < capacity}

\* capacity fits n inputs: strictly greater than n, load factor at most 0.75
Fits(n, capacity) == capacity > n /\ 4 * n <= 3 * capacity

\* C13 (as claimed): the capacity the bulk constructor allocates is the
\* smallest power of two that is strictly greater than the input length n with
\* n/capacity <= 0.75, and the insertion loop leaves it as it is.
C13_BulkSmallestPowerOfTwo ==
    /\ last.op = "sized" =>
           /\ m.capacity \in {2 ^ e : e \in 0..10}
           /\ Fits(m.size, m.capacity)
           /\ \A c \in PowersBelow(m.capacity, 1) : ~Fits(m.size, c)
    /\ last.op = "HashMapFromVectors" => m.capacity = last.cap

\* C13 (amended): the capacity the bulk constructor allocates is the smallest
\* power of two not below DEFAULT_CAPACITY (16) that is strictly greater than
\* the input length n with n/capacity <= 0.75; it is computed before the first
\* insertion and the insertion loop leaves it as it is.
C13_BulkSmallestFromDefault ==
    /\ last.op = "sized" =>
           /\ m.capacity \in {2 ^ e : e \in 0..10}
           /\ m.capacity >= DEFAULT_CAPACITY
           /\ Fits(m.size, m.capacity)
           /\ \A c \in PowersBelow(m.capacity, DEFAULT_CAPACITY) : ~Fits(m.size, c)
           /\ EntryCount(m) = 0
    /\ last.op = "HashMapFromVectors" => m.capacity = last.cap

\* the capacity loop has doubled the capacity for 16 inputs
C13_Witness == last.op = "sized" /\ m.size = DEFAULT_CAPACITY /\ m.capacity > last.cap

\* ----------------------------------------------------------------- C14
\* a call of operator[] const: a const method leaves the object as it is; ret
\* is the set of values the returned reference can denote
IndexConstCall(mp, hp, key) ==
    [map |-> mp, heap |-> hp, ret |-> IndexConst(mp, hp, key)]

\* the capacity after the grow check for a map of `size` entries
AfterGrowCheck(size, capacity) ==
    IF 4 * size > 3 * capacity THEN 2 * capacity ELSE capacity

\* what the claim says of an index access with result r on the key k: on an
\* absent key an entry with the default value has been inserted and the grow
\* check applied, on a present key nothing has changed
InsertsDefault(r, k) ==
    IF k \in KeysOf(m, heap)
    THEN r.map = m /\ r.heap = heap
    ELSE /\ ContainsKey(r.map, r.heap, k)
         /\ r.map.size = m.size + 1
         /\ Content(r.map, r.heap) = Content(m, heap) \cup {<<k, DefaultValue>>}
         /\ r.map.capacity = AfterGrowCheck(m.size + 1, m.capacity)

\* C14 (as claimed): index access on an absent key, in its read form (operator[]
\* const) and in its write form (operator[]), first inserts an entry with a
\* default-constructed value: containsKey is true afterwards, size() has grown
\* by one and the grow check has been applied; on a present key it returns the
\* stored value and changes neither size nor capacity.
C14_IndexInsertsDefault ==
    \A k \in Keys :
        /\ InsertsDefault(Index(m, heap, k), k)
        /\ InsertsDefault(IndexConstCall(m, heap, k), k)

\* C14 (amended): operator[] (non-const) on an absent key inserts an entry
\* with a default-constructed value, applies the grow check and returns a
\* reference to the new value; on a present key it returns the stored value
\* and changes nothing.  operator[] const never inserts: on a present key it
\* returns the stored value, on an absent key it leaves the map as it is and
\* returns a reference to _defaultValue, whose value is indeterminate.
C14_IndexNonConstInserts ==
    \A k \in Keys :
        LET r == Index(m, heap, k)
            c == IndexConstCall(m, heap, k)
        IN /\ InsertsDefault(r, k)
           /\ r.heap[r.ret].first = k
           /\ c.map = m /\ c.heap = heap
           /\ IF k \in KeysOf(m, heap)
              THEN /\ r.heap[r.ret].second = AtValue(m, heap, k)
                   /\ c.ret = {AtValue(m, heap, k)}
              ELSE /\ r.heap[r.ret].second = DefaultValue
                   /\ c.ret = Values

\* an operator[] on an absent key has grown the table
C14_Witness == last.op = "index" /\ m.capacity > last.cap /\ m.size >= 2

\* ----------------------------------------------------------------- C15
\* KeyNotFoundException, as the result of a call that returns an int
KeyNotFound == -1

\* bucketSize without the test for the key
BucketSizeUnchecked(mp, hp, key) == Len(mp.arr[Hash(key, mp.capacity) + 1])

\* bucketSize: row.size() of the key's row, or KeyNotFoundException
BucketSize(mp, hp, key) ==
    LET row == mp.arr[Hash(key, mp.capacity) + 1]
    IN IF GetValue(key, row, hp) # nullptr THEN Len(row) ELSE KeyNotFound

\* bucketIndex: _hash(key), or KeyNotFoundException
BucketIndex(mp, hp, key) ==
    LET index == Hash(key, mp.capacity)
    IN IF GetValue(key, mp.arr[index + 1], hp) # nullptr THEN index ELSE KeyNotFound

\* C15: at(k), bucketSize(k) and bucketIndex(k) throw KeyNotFoundException
\* exactly when k is absent (they are calls that change neither the object nor
\* the heap); when k is present at(k) returns its value, bucketIndex(k) is
\* hash(k) mod capacity and bucketSize(k) is the number of entries in that
\* bucket.
C15_KeyNotFoundWhenAbsent ==
    \A k \in Keys :
        IF k \in KeysOf(m, heap)
        THEN /\ At(m, heap, k) \in Pairs(m)
             /\ <<k, AtValue(m, heap, k)>> \in Content(m, heap)
             /\ BucketIndex(m, heap, k) = StdHash(k) % m.capacity
             /\ BucketSize(m, heap, k) =
                    Cardinality({p \in Pairs(m) :
                        StdHash(heap[p].first) % m.capacity = StdHash(k) % m.capacity})
        ELSE /\ At(m, heap, k) = nullptr
             /\ AtValue(m, heap, k) = KeyNotFound
             /\ BucketIndex(m, heap, k) = KeyNotFound
             /\ BucketSize(m, heap, k) = KeyNotFound

\* a map in a table that has shrunk, in which one key shares its bucket with
\* another and a third key is absent
C15_Witness ==
    /\ \E k \in Keys : BucketSize(m, heap, k) >= 2
    /\ \E k \in Keys : BucketIndex(m, heap, k) = KeyNotFound
    /\ m.capacity < DEFAULT_CAPACITY

\* ----------------------------------------------------------------- C16
\* OutOfRangeException, as the result of operator-> (operator* dereferences
\* what operator-> returns)
OutOfRange == nullptr

\* the position of an iterator, whatever it has produced
Position(itr) == [i |-> itr.i, j |-> itr.j]

\* C16: dereferencing an iterator at the end sentinel (end(), begin() of an
\* empty map, an iterator advanced past the last entry, and the same advanced
\* further) throws OutOfRangeException; dereferencing an iterator that is not
\* at the end yields a pair of the map.
C16_OutOfRangeAtEnd ==
    /\ Arrow(End(m), m) = OutOfRange
    /\ Position(Increment(End(m), m)) = Position(End(m))
    /\ EntryCount(m) = 0 => IteratorEquals(Begin(m), End(m))
    /\ TraversalDone =>
           /\ Arrow(it, m) = OutOfRange
           /\ Increment(it, m) = it
    /\ (it.live /\ ~TraversalDone) =>
           /\ it.i < it.capacity
           /\ it.j < Len(m.arr[it.i + 1])
           /\ Arrow(it, m) \in Pairs(m)

\* an iterator has been advanced past the last of two entries
C16_Witness == TraversalDone /\ Len(it.seen) >= 2

\* ----------------------------------------------------------------- C17
\* A map created with HashMap() that is filled with up to FillKeys distinct
\* keys.  The keys are taken in cyclic order from any first key and never
\* reused: a call that adds a key takes the one after the last added, an erase
\* takes the only key of a map of one key (each such erase halves the table).
\* hist.ref is the set of keys added so far, hist.net the number of keys in the
\* map.
FillRange == 1..FillKeys
FillHeap == [p \in FillRange |-> Free]

Before(k) == IF k = 1 THEN FillKeys ELSE k - 1

\* the keys the next adding call can take
Fresh == IF hist.ref = {} THEN FillRange
         ELSE {k \in FillRange \ hist.ref : Before(k) \in hist.ref}

InitFill ==
    /\ m = HashMapEmpty
    /\ heap = FillHeap
    /\ last = Constructed("HashMap")
    /\ hist = NoHist
    /\ it = NoIt
    /\ mail = NoMail

\* m.insert(key, ValueT()) for the next key or for a key of the map
DoFillInsert(key) ==
    /\ key \in Fresh \cup KeysOf(m, heap)
    /\ \E r \in {Insert(m, heap, key, DefaultValue)} : Becomes(r.map, r.heap, Op("insert", r.ret))
    /\ CountInsert(key)
    /\ UNCHANGED <<it, mail>>

\* m[key] for the next key
DoFillIndex(key) ==
    /\ key \in Fresh
    /\ \E r \in {Index(m, heap, key)} : Becomes(r.map, r.heap, Op("index", TRUE))
    /\ CountInsert(key)
    /\ UNCHANGED <<it, mail>>

\* m.erase(key) for the only key of the map
DoFillErase(key) ==
    /\ KeysOf(m, heap) = {key}
    /\ \E r \in {Erase(m, heap, key)} : Becomes(r.map, r.heap, Op("erase", r.ret))
    /\ hist' = [hist EXCEPT !.net = @ - 1]
    /\ UNCHANGED <<it, mail>>

NextFill ==
    \/ \E key \in FillRange : DoFillInsert(key)
    \/ \E key \in FillRange : DoFillIndex(key)
    \/ \E key \in FillRange : DoFillErase(key)

SpecFill == InitFill /\ [][NextFill]_vars

\* no erase has been called: every key added is still in the map
OnlyFilled == Cardinality(hist.ref) = hist.net

\* C17: after every insert and every auto-inserting operator[] the load factor
\* is at most 0.75; 13 distinct keys inserted into a map created with HashMap()
\* leave the capacity at 16 through the 12th and at 32 after the 13th.
C17_LoadAtMostMax ==
    /\ last.op \in {"insert", "index"} => 4 * m.size <= 3 * m.capacity
    /\ m.size = hist.net
    /\ OnlyFilled =>
           /\ hist.net <= 12 => m.capacity = DEFAULT_CAPACITY
           /\ hist.net >= 13 => m.capacity = DEFAULT_CAPACITY * CHANGE_FACTOR

\* the 13th insert into a map created with HashMap() has returned
C17_Witness ==
    /\ OnlyFilled /\ hist.net = 13
    /\ last.op = "insert" /\ last.ret /\ last.cap = DEFAULT_CAPACITY

\* ----------------------------------------------------------------- C18
\* the map object mp holds nothing: size() is 0, no bucket has an entry, no
\* key is contained and begin() equals end()
HoldsNothing(mp, hp) ==
    /\ mp.size = 0
    /\ EntryCount(mp) = 0
    /\ \A k \in Keys : ~ContainsKey(mp, hp, k)
    /\ IteratorEquals(Begin(mp), End(mp))

\* C18: clear() removes every entry and resets size() to 0 while the capacity
\* stays what it was; afterwards containsKey is false for every key and
\* begin() equals end().
C18_ClearKeepsCapacity ==
    /\ LET r == Clear(m, heap)
       IN /\ HoldsNothing(r.map, r.heap)
          /\ r.map.capacity = m.capacity
          /\ \A p \in Pairs(m) : r.heap[p] = Free
    /\ last.op = "clear" => HoldsNothing(m, heap) /\ m.capacity = last.cap

\* clear() has been called on a map whose table had shrunk
C18_Witness == last.op = "clear" /\ m.capacity < DEFAULT_CAPACITY /\ m.capacity > MIN_CAPACITY

\* ----------------------------------------------------------------- C19
\* the places (bucket index, offset) of the entries of mp that hold key k
PlacesOf(mp, hp, k) ==
    {<<b, n>> \in (0..(mp.capacity - 1)) \X (1..NumKeys + 1) :
        n <= Len(mp.arr[b + 1]) /\ hp[mp.arr[b + 1][n]].first = k}

\* every key is in at most one entry of mp, and every entry is in the bucket
\* whose index is hash(key) mod capacity
WellPlaced(mp, hp) ==
    /\ \A b \in 1..mp.capacity : Len(mp.arr[b]) <= NumKeys + 1
    /\ \A k \in Keys :
           /\ Cardinality(PlacesOf(mp, hp, k)) <= 1
           /\ \A pl \in PlacesOf(mp, hp, k) : pl[1] = StdHash(k) % mp.capacity

\* C19: in every reachable state every key appears in at most one entry over
\* all buckets and every entry sits in the bucket whose index is hash(key) mod
\* the current capacity; this holds after each grow, each shrink and the bulk
\* constructor, and of a copy.
C19_KeysWellPlaced ==
    /\ WellPlaced(m, heap)
    /\ EntryCount(m) = Cardinality(KeysOf(m, heap))
    /\ LET c == Copy(m, heap) IN WellPlaced(c.map, c.heap)

\* a grow has moved an entry to a bucket other than the one it has at the
\* default capacity, next to an entry it does not share the bucket with
C19_Witness ==
    /\ last.op \in {"insert", "index"} /\ m.capacity > last.cap
    /\ \E k \in KeysOf(m, heap) : StdHash(k) % m.capacity # StdHash(k) % DEFAULT_CAPACITY
    /\ \E k, k2 \in KeysOf(m, heap) : StdHash(k) % m.capacity # StdHash(k2) % m.capacity

\* ----------------------------------------------------------------- C20
\* the last call has added a key (in SpecFill operator[] is called for keys
\* that are not in the map)
AddedKey == (last.op = "insert" /\ last.ret) \/ last.op = "index"

\* C20: an insert or an auto-inserting operator[] that adds a key changes the
\* capacity iff the new size divided by the old capacity is strictly greater
\* than 0.75, and then the capacity doubles; at exactly 0.75 (12 entries in 16
\* buckets, 3 in 4) the capacity is unchanged.
C20_GrowRule ==
    AddedKey =>
        /\ m.size = hist.net
        /\ IF 4 * m.size > 3 * last.cap
           THEN m.capacity = 2 * last.cap
           ELSE m.capacity = last.cap
        /\ 4 * m.size = 3 * last.cap => m.capacity = last.cap

\* an insert has left 3 entries in 4 buckets
C20_Witness ==
    /\ last.op = "insert" /\ last.ret
    /\ m.size = 3 /\ last.cap = 4 /\ m.capacity = 4

\* ----------------------------------------------------------------- C21
\* C21: an erase that removes a key changes the capacity iff the new size
\* divided by the old capacity is strictly less than 0.25 and the old capacity
\* is greater than 1, and then the capacity halves; one insert or erase never
\* changes the capacity by more than one factor of two, whatever the load
\* factor afterwards.
C21_ShrinkRule ==
    /\ (last.op = "erase" /\ last.ret) =>
           IF 4 * m.size < last.cap /\ last.cap > 1
           THEN 2 * m.capacity = last.cap
           ELSE m.capacity = last.cap
    /\ (last.op = "erase" /\ ~last.ret) => m.capacity = last.cap
    /\ last.op \in {"insert", "erase"} =>
           m.capacity \in {last.cap, 2 * last.cap, last.cap \div 2}
    /\ \A k \in Keys :
           LET r == Erase(m, heap, k)
           IN r.map.capacity =
                  IF r.ret /\ 4 * (m.size - 1) < m.capacity /\ m.capacity > 1
                  THEN m.capacity \div 2
                  ELSE m.capacity

\* an erase has halved a table of more than two buckets and the load factor
\* is still below 0.25
C21_Witness ==
    /\ last.op = "erase" /\ last.ret /\ 2 * m.capacity = last.cap
    /\ m.capacity > 2 /\ 4 * m.size < m.capacity

\* ----------------------------------------------------------------- C22
\* the capacities a resize of the map can be asked for
ResizeTargets ==
    {m.capacity * CHANGE_FACTOR} \cup
    (IF m.capacity > MIN_CAPACITY THEN {m.capacity \div CHANGE_FACTOR} ELSE {})

\* the pairs of `old` are the pairs of `new`, once each, in the same cells
\* with the same key and value
SameEntries(old, new, hp, hp1) ==
    /\ Pairs(new) = Pairs(old)
    /\ EntryCount(new) = EntryCount(old)
    /\ \A p \in Pairs(old) : hp1[p] = hp[p] /\ hp[p] # Free

\* C22: a resize changes only the capacity and the placement of the entries:
\* the map holds the same entry objects afterwards, none created, dropped or
\* duplicated, size() is unchanged and every key has the same value; the
\* entry which operator[] returns from the call that made the table grow is a
\* live entry of the map with the key asked for.
C22_ResizeKeepsEntries ==
    /\ \A nc \in ResizeTargets :
           LET r == RehashArray(m, heap, nc)
           IN /\ SameEntries(m, r, heap, heap)
              /\ r.size = m.size /\ r.capacity = nc
              /\ \A k \in Keys : AtValue(r, heap, k) = AtValue(m, heap, k)
    /\ \A k \in Keys, v \in Values :
           LET r == Insert(m, heap, k, v)
           IN r.map.capacity # m.capacity =>
                  \E p \in Pairs(r.map) \ Pairs(m) :
                      /\ SameEntries(m, [r.map EXCEPT !.arr =
                             [b \in 1..r.map.capacity |->
                                 SelectSeq(r.map.arr[b], LAMBDA q : q # p)]],
                             heap, r.heap)
                      /\ EntryCount(r.map) = EntryCount(m) + 1
                      /\ r.heap[p] = [first |-> k, second |-> v]
                      /\ r.map.size = m.size + 1
    /\ \A k \in Keys :
           LET r == Erase(m, heap, k)
           IN r.map.capacity # m.capacity =>
                  \E p \in Pairs(m) \ Pairs(r.map) :
                      /\ heap[p].first = k
                      /\ Pairs(r.map) = Pairs(m) \ {p}
                      /\ EntryCount(r.map) = EntryCount(m) - 1
                      /\ \A q \in Pairs(r.map) : r.heap[q] = heap[q] /\ heap[q] # Free
                      /\ r.map.size = m.size - 1
    /\ \A k \in Keys :
           LET r == Index(m, heap, k)
           IN r.map.capacity # m.capacity =>
                  /\ r.ret \in Pairs(r.map) \ Pairs(m)
                  /\ r.heap[r.ret] = [first |-> k, second |-> DefaultValue]
                  /\ At(r.map, r.heap, k) = r.ret
                  /\ Pairs(r.map) = Pairs(m) \cup {r.ret}
                  /\ EntryCount(r.map) = EntryCount(m) + 1
                  /\ \A q \in Pairs(m) : r.heap[q] = heap[q] /\ heap[q] # Free

\* operator[] has made the table grow and two entries share a bucket of the
\* new table
C22_Witness ==
    /\ last.op = "index" /\ m.capacity = last.cap * CHANGE_FACTOR
    /\ \E b \in 1..m.capacity : Len(m.arr[b]) >= 2

\* ----------------------------------------------------------------- C23
\* A map created with HashMap() that holds keys of one bucket only: the first
\* MaxRow keys whose hash falls in the bucket of key 1 (they share a bucket at
\* every capacity up to the default one), inserted and erased in any order.
\* An erase records the keys of the row it searched, front to back, and the
\* key it was called with.
MaxRow == 4

RowKeys ==
    {k \in FillRange :
        /\ Hash(k, DEFAULT_CAPACITY) = Hash(1, DEFAULT_CAPACITY)
        /\ Cardinality({j \in 1..k : Hash(j, DEFAULT_CAPACITY) = Hash(1, DEFAULT_CAPACITY)}) <= MaxRow}

\* the keys of the pairs of a row, front to back
KeysIn(row, hp) == [n \in 1..Len(row) |-> hp[row[n]].first]

DoRowInsert(key) ==
    /\ \E r \in {Insert(m, heap, key, DefaultValue)} : Becomes(r.map, r.heap, Op("insert", r.ret))
    /\ Untracked

DoRowErase(key) ==
    /\ \E r \in {Erase(m, heap, key)} :
           Becomes(r.map, r.heap,
                   Call("erase", r.ret, m.capacity,
                        KeysIn(m.arr[Hash(key, m.capacity) + 1], heap), <<key>>))
    /\ Untracked

NextRow ==
    \/ \E key \in RowKeys : DoRowInsert(key)
    \/ \E key \in RowKeys : DoRowErase(key)

SpecRow == InitFill /\ [][NextRow]_vars

\* the row without position p, the back moved into p unless p is the back
SwapRemoved(row, p) ==
    [q \in 1..(Len(row) - 1) |-> IF q = p THEN row[Len(row)] ELSE row[q]]

\* C23: removing the entry at position p of a bucket of length n leaves a
\* bucket of length n - 1; if p was not the last position the formerly last
\* entry is at p and every other remaining entry keeps its position, if p was
\* the last position the remaining entries keep their order; exactly the entry
\* with the matching key is removed.
C23_SwapRemove ==
    /\ \A b \in 1..m.capacity, k \in RowKeys :
           LET row == m.arr[b]
               n == Len(row)
               p == FindFrom(k, row, heap, 1)
               d == DeleteValue(k, row, heap)
           IN IF k \notin Range(KeysIn(row, heap))
              THEN ~d.ret /\ d.row = row /\ d.heap = heap
              ELSE /\ d.ret
                   /\ Len(d.row) = n - 1
                   /\ heap[row[p]].first = k
                   /\ p < n => /\ d.row[p] = row[n]
                               /\ \A q \in (1..(n - 1)) \ {p} : d.row[q] = row[q]
                   /\ p = n => d.row = SubSeq(row, 1, n - 1)
                   /\ Range(d.row) = Range(row) \ {row[p]}
                   /\ d.heap = [heap EXCEPT ![row[p]] = Free]
    /\ (last.op = "erase" /\ last.ret) =>
           \E p \in 1..Len(last.keys) :
               /\ last.keys[p] = last.vals[1]
               /\ KeysIn(m.arr[Hash(1, m.capacity) + 1], heap) = SwapRemoved(last.keys, p)
    /\ (last.op = "erase" /\ ~last.ret) =>
           /\ last.vals[1] \notin Range(last.keys)
           /\ KeysIn(m.arr[Hash(1, m.capacity) + 1], heap) = last.keys

\* an erase has removed the front of a row of four entries: the former back
\* is the front now and the two entries between them are where they were
C23_Witness ==
    /\ last.op = "erase" /\ last.ret
    /\ Len(last.keys) = 4 /\ last.keys[1] = last.vals[1]
    /\ KeysIn(m.arr[Hash(1, m.capacity) + 1], heap) =
           <<last.keys[4], last.keys[2], last.keys[3]>>

\* ----------------------------------------------------------------- C24
\* the pairs in the slots before bucket i (from 0), in ascending bucket index
\* and ascending offset
RECURSIVE SlotsBefore(_, _)
SlotsBefore(mp, i) ==
    IF i = 0 THEN <<>> ELSE SlotsBefore(mp, i - 1) \o mp.arr[i]

\* an iterator is at the end position, or on an existing slot
AtEnd(itr) == itr.i = itr.capacity /\ itr.j = 0
OnSlot(itr, mp) ==
    itr.i >= 0 /\ itr.i < mp.capacity /\ itr.j >= 0 /\ itr.j < Len(mp.arr[itr.i + 1])

\* position b comes after position a in bucket-then-offset order
After(a, b) == b.i > a.i \/ (b.i = a.i /\ b.j > a.j)

\* C24: every iterator reached from begin() by advances is either at end()
\* (bucket index = capacity, offset 0) or on an existing slot (bucket index
\* below the capacity, offset below that bucket's length); begin() of a map
\* with no entry is end(); the entries are visited in ascending bucket index
\* and, within a bucket, ascending offset; advancing at end() stays at end().
C24_IteratorPositionValid ==
    /\ AtEnd(End(m)) /\ End(m).capacity = m.capacity
    /\ AtEnd(Begin(m)) \/ OnSlot(Begin(m), m)
    /\ Pairs(m) = {} => Position(Begin(m)) = Position(End(m))
    /\ OnSlot(Begin(m), m) => SlotsBefore(m, Begin(m).i) = <<>>
    /\ it.live =>
           /\ it.capacity = m.capacity
           /\ AtEnd(it) \/ OnSlot(it, m)
           /\ ~(AtEnd(it) /\ OnSlot(it, m))
           /\ OnSlot(it, m) =>
                  /\ it.seen = SlotsBefore(m, it.i) \o SubSeq(m.arr[it.i + 1], 1, it.j)
                  /\ After(it, Increment(it, m))
                  /\ AtEnd(Increment(it, m)) \/ OnSlot(Increment(it, m), m)
           /\ AtEnd(it) =>
                  /\ it.seen = SlotsBefore(m, m.capacity)
                  /\ Increment(it, m) = it

\* a traversal has passed two entries of one bucket and stands on an entry of
\* a later bucket, with an empty bucket between the two
C24_Witness ==
    /\ it.live /\ OnSlot(it, m) /\ Len(it.seen) >= 2
    /\ \E b \in 1..it.i : Len(m.arr[b]) >= 2
    /\ \E b \in 1..it.i : m.arr[b] = <<>> /\ \E c \in 1..(b - 1) : m.arr[c] # <<>>

\* ----------------------------------------------------------------- C25
\* the second map objects to compare mp with: those of Others, and the map
\* rebuilt from HashMap() after one more insert
Peers(mp, hp) ==
    LET b == Rebuilt(mp, hp)
    IN Others(mp, hp)
       \cup {[map |-> Insert(b.map, b.heap, k, v).map,
              heap |-> Insert(b.map, b.heap, k, v).heap] : k \in Keys, v \in Values}

\* C25 (as claimed): operator== is symmetric on all reachable maps, however
\* they were constructed and whatever was called on them: (a == b) = (b == a),
\* and a == b implies that a and b hold the same set of key/value pairs.
C25_EqualsSymmetric ==
    \A o \in Peers(m, heap) :
        /\ Equals(m, o.map, o.heap) = Equals(o.map, m, o.heap)
        /\ Equals(m, o.map, o.heap) => Content(m, o.heap) = Content(o.map, o.heap)

\* ----------------------------------------------------------------- C26
\* SpamDetector.cpp: strings are sequences of one-character strings, positions
\* in a string count from 0 as in the source.
\*   MaxRowChars  the longest row of the database file
\*   MaxFile      the characters of all rows of the database file together
\*   MaxLine      the longest line of the message file
\*   MaxString    std::string::max_size(): replace throws std::length_error
\*                when the result would be longer
MaxRowChars == 4
MaxFile == 7
MaxLine == 3
MaxString == 5

SEPARATOR == ","
FAILURE == -1

Digits == {"0", "1"}
RowChars == {"a", "A", SEPARATOR} \cup Digits
LineChars == {"a", "A"}

\* the strings over S of length at most n
Strings(S, n) == UNION {[1..k -> S] : k \in 0..n}

\* _toLowercase: the characters CAPS_MIN..CAPS_MAX become lower case
ToLowercase(st) == [i \in 1..Len(st) |-> IF st[i] = "A" THEN "a" ELSE st[i]]

\* _isNonNegativeNumber: every character is a digit and the string is not empty
IsNonNegativeNumber(st) == st # <<>> /\ \A i \in 1..Len(st) : st[i] \in Digits

\* std::stoi of a string of digits
RECURSIVE Stoi(_)
Stoi(st) ==
    IF st = <<>> THEN 0
    ELSE 10 * Stoi(SubSeq(st, 1, Len(st) - 1)) + (IF st[Len(st)] = "1" THEN 1 ELSE 0)

\* boost::tokenizer with char_separator(SEPARATOR, nullptr, keep_empty_tokens):
\* the fields between the separators, the empty ones included
RECURSIVE Tokens(_)
Tokens(st) ==
    IF st = <<>> THEN <<>>
    ELSE IF \A i \in 1..Len(st) : st[i] # SEPARATOR THEN <<st>>
    ELSE LET sep == CHOOSE i \in 1..Len(st) :
                        st[i] = SEPARATOR /\ \A j \in 1..(i - 1) : st[j] # SEPARATOR
         IN IF sep = Len(st) THEN <<SubSeq(st, 1, sep - 1), <<>>>>
            ELSE <<SubSeq(st, 1, sep - 1)>> \o Tokens(SubSeq(st, sep + 1, Len(st)))

\* loadDatabase, one row: accepted when it has exactly two fields and the
\* second is a non-negative number; the phrase is stored in lower case
Accepted(row) == Len(Tokens(row)) = 2 /\ IsNonNegativeNumber(Tokens(row)[2])
Loaded(row) == [first |-> ToLowercase(Tokens(row)[1]), second |-> Stoi(Tokens(row)[2])]

AcceptedRows == {row \in Strings(RowChars, MaxRowChars) : Accepted(row)}

\* the pairs of the map built from the rows loaded, in the order the range-for
\* of scoreEmail produces them: at most two pairs, of different phrases
Databases ==
    {<<>>} \cup {<<Loaded(row)>> : row \in AcceptedRows}
    \cup {<<Loaded(r[1]), Loaded(r[2])>> :
             r \in {q \in AcceptedRows \X AcceptedRows :
                       /\ Len(q[1]) + Len(q[2]) <= MaxFile
                       /\ Loaded(q[1]).first # Loaded(q[2]).first}}

\* std::string::find(str, pos): the first position from pos on at which str
\* occurs (the empty string occurs at every position), npos converted to int
Find(line, str, pos) ==
    LET found == {i \in pos..(Len(line) - Len(str)) :
                     SubSeq(line, i + 1, i + Len(str)) = str}
    IN IF found = {} THEN FAILURE
       ELSE CHOOSE i \in found : \A j \in found : i <= j

\* std::string::replace(pos, len, str)
Replace(line, pos, len, str) ==
    SubSeq(line, 1, pos) \o str \o SubSeq(line, pos + len + 1, Len(line))

\* scoreEmail called for a message file of one line and a database:
\*   pc           where the call stands
\*   file         the lines not read yet
\*   line         the line being scored
\*   database     the pairs of the map, in iteration order
\*   pair         the pair the range-for stands on (from 1)
\*   phraseIndex  the local of that name
\*   score        the local of that name
\*   count        count[n]: the replacements made for pair n
ScoreEmail(database, line) ==
    [pc |-> "getline", file |-> <<line>>, line |-> <<>>, database |-> database,
     pair |-> 0, phraseIndex |-> FAILURE, score |-> 0,
     count |-> [n \in 1..Len(database) |-> 0]]

InitScore ==
    /\ InitEmpty
    /\ hist = NoHist
    /\ it = NoIt
    /\ \E database \in Databases, line \in Strings(LineChars, MaxLine) :
           mail = ScoreEmail(database, line)

MapIdle == UNCHANGED <<m, heap, last, hist, it>>

\* std::getline(file, line) gives a line: an empty one is skipped, any other
\* is put in lower case and the range-for over the database starts
GetLine ==
    /\ mail.pc = "getline" /\ mail.file # <<>>
    /\ mail' = IF Head(mail.file) = <<>>
               THEN [mail EXCEPT !.file = Tail(@)]
               ELSE [mail EXCEPT !.file = Tail(@), !.line = ToLowercase(Head(mail.file)),
                                 !.pair = 1, !.pc = "for"]
    /\ MapIdle

\* std::getline fails at the end of the file: return score
ReturnScore ==
    /\ mail.pc = "getline" /\ mail.file = <<>>
    /\ mail' = [mail EXCEPT !.pc = "return"]
    /\ MapIdle

\* the range-for: int phraseIndex = line.find(pair.first) for the next pair,
\* or the end of the loop
ForPair ==
    /\ mail.pc = "for"
    /\ mail' = IF mail.pair > Len(mail.database)
               THEN [mail EXCEPT !.pc = "getline"]
               ELSE [mail EXCEPT !.phraseIndex = Find(mail.line, mail.database[mail.pair].first, 0),
                                 !.pc = "while"]
    /\ MapIdle

\* one round of the while loop: replace the phrase by SEPARATOR, add the
\* pair's score, search again from the same position
ReplacePhrase ==
    /\ mail.pc = "while" /\ mail.phraseIndex # FAILURE
    /\ \E e \in {mail.database[mail.pair]} :
       \E replaced \in {Replace(mail.line, mail.phraseIndex, Len(e.first), <<SEPARATOR>>)} :
           mail' = IF Len(replaced) > MaxString
                   THEN [mail EXCEPT !.pc = "length_error"]
                   ELSE [mail EXCEPT !.line = replaced,
                                     !.score = @ + e.second,
                                     !.count[mail.pair] = @ + 1,
                                     !.phraseIndex = Find(replaced, e.first, mail.phraseIndex)]
    /\ MapIdle

\* the while loop ends: the phrase is no longer found
PhraseDone ==
    /\ mail.pc = "while" /\ mail.phraseIndex = FAILURE
    /\ mail' = [mail EXCEPT !.pair = @ + 1, !.pc = "for"]
    /\ MapIdle

NextScore ==
    \/ GetLine
    \/ ReturnScore
    \/ ForPair
    \/ ReplacePhrase
    \/ PhraseDone

\* the call runs on until it returns or throws
SpecScore == InitScore /\ [][NextScore]_vars /\ WF_vars(NextScore)

\* the sum over the pairs of (replacements made) * (score of the pair)
RECURSIVE ScoreSum(_, _, _)
ScoreSum(database, count, n) ==
    IF n = 0 THEN 0 ELSE ScoreSum(database, count, n - 1) + count[n] * database[n].second

\* C26 (as claimed): scoring terminates: for every database accepted by the
\* loader, a row with an empty phrase column included, and every message line,
\* the find-and-replace loop of each phrase reaches "phrase no longer found"
\* after finitely many replacements, and the score returned is the sum over the
\* phrases of (number of replacements) * (score of the phrase).
C26_ScoringTerminates ==
    <>(/\ mail.pc = "return"
       /\ mail.score = ScoreSum(mail.database, mail.count, Len(mail.database)))

====
